---- MODULE Spec2Model ----
(***************************************************************************)
(* Model of src/main.py: the AVRO-string webhook service.                   *)
(*                                                                         *)
(*  - AvroStringParser (regex field extractor, record parser, fallback      *)
(*    record) is modelled as operators over character sequences; the two    *)
(*    regular expressions are run by a backtracking matcher.                *)
(*  - The three webhook handlers (POST, GET, reset) are coroutines on one   *)
(*    asyncio event loop.  Every statement of a handler is a step; another  *)
(*    coroutine can be scheduled only while no coroutine holds the loop,    *)
(*    that is at an await or after a return.                                *)
(*                                                                         *)
(* A text (Python str) is a sequence of characters, a character a string    *)
(* of length one (or "U+XXXX" for a non-ASCII code point).  A request body  *)
(* (Python bytes) is a sequence of bytes: an ASCII byte is written as its   *)
(* character, any other byte as "xHH".                                      *)
(***************************************************************************)
EXTENDS Integers, Sequences, FiniteSets, TLC

VARIABLES
    transaction_counter,   \* main.py:36   global counter
    transaction_storage,   \* main.py:37   global list of TransactionData
    pc,                    \* position of each handler coroutine
    raw_body,              \* POST: local `raw_body`, the request body (bytes)
    transaction,           \* POST: local `transaction`
    raw_data,              \* POST: local `raw_data`
    last_transactions,     \* GET: local `last_transactions`
    running,               \* the coroutine holding the event loop, 0 if none
    response,              \* the HTTP response sent by the latest step, if any
    now,                   \* the wall clock, in ticks
    accepted,              \* history: Records appended since the last reset
    arg_raw,               \* parser calls: the raw text argument
    arg_name,              \* parser calls: field_name / error_msg argument
    called,                \* parser calls: which function was applied
    ret                    \* parser calls: what it returned

httpVars == <<transaction_counter, transaction_storage, pc, raw_body, raw_data,
              transaction, last_transactions, running, response, accepted>>
parserVars == <<arg_raw, arg_name, called, ret>>
vars == <<httpVars, parserVars, now>>

-----------------------------------------------------------------------------
(* Bounds of the model *)

\* number of handler coroutines that can be in flight together
NTasks == 2
\* POSTs accepted before the model stops accepting more
MaxPosts == 15
\* last tick of the wall clock
MaxNow == 1
\* fragments concatenated into one raw text given to the parser
MaxFrags == 3
\* longest filler text given to the parser
MaxRawLen == 300
\* longest failure description given to the fallback
MaxErrLen == 55

-----------------------------------------------------------------------------
(* Python str / list helpers *)

Min(a, b) == IF a < b THEN a ELSE b

\* s[:n]
Prefix(s, n) == SubSeq(s, 1, Min(n, Len(s)))

\* s[-n:] for n > 0
Suffix(s, n) == SubSeq(s, Len(s) - Min(n, Len(s)) + 1, Len(s))

\* list(reversed(s))
Reversed(s) == [i \in 1..Len(s) |-> s[Len(s) - i + 1]]

Q == "\""

\* characters matched by \s in a str pattern (those the model's texts use)
IsSpace(c) == c \in {" ", "\t", "\n", "\r", "\f", "U+00A0"}

Digit(d) == <<"0", "1", "2", "3", "4", "5", "6", "7", "8", "9">>[d + 1]

RECURSIVE Decimal(_)
Decimal(n) == IF n < 10 THEN <<Digit(n)>> ELSE Decimal(n \div 10) \o <<Digit(n % 10)>>

\* datetime.isoformat(): the text of a clock value
IsoFormat(t) == <<"T">> \o Decimal(t)

-----------------------------------------------------------------------------
(* re.search for the two patterns of _extract_string_value *)

Lit(s)  == [t |-> "lit", s |-> s]      \* a literal text
Spaces  == [t |-> "spaces", s |-> <<>>]   \* \s*
Group   == [t |-> "group", s |-> <<>>]    \* ([^"]+)

NoMatch == [ok |-> FALSE, end |-> 0, group |-> <<>>]

\* number of consecutive characters from position i on that satisfy the class
RECURSIVE SpaceRun(_, _)
SpaceRun(s, i) == IF i <= Len(s) /\ IsSpace(s[i]) THEN 1 + SpaceRun(s, i + 1) ELSE 0

RECURSIVE NonQuoteRun(_, _)
NonQuoteRun(s, i) == IF i <= Len(s) /\ s[i] # Q THEN 1 + NonQuoteRun(s, i + 1) ELSE 0

\* Backtracking match of pattern elements k.. of pat at position i of s; g is
\* the text captured so far.  A greedy repetition takes n characters, the most
\* first, and gives one back at a time (down to lo) while the rest fails.
RECURSIVE MatchFrom(_, _, _, _, _)
RECURSIVE Repeat(_, _, _, _, _, _, _)
Repeat(pat, k, s, i, g, n, lo) ==
    IF n < lo THEN NoMatch
    ELSE LET g2 == IF pat[k].t = "group" THEN SubSeq(s, i, i + n - 1) ELSE g
             r  == MatchFrom(pat, k + 1, s, i + n, g2)
         IN  IF r.ok THEN r ELSE Repeat(pat, k, s, i, g, n - 1, lo)

MatchFrom(pat, k, s, i, g) ==
    IF k > Len(pat) THEN [ok |-> TRUE, end |-> i, group |-> g]
    ELSE IF pat[k].t = "lit"
         THEN LET e == i + Len(pat[k].s) - 1
              IN  IF e <= Len(s) /\ SubSeq(s, i, e) = pat[k].s
                  THEN MatchFrom(pat, k + 1, s, e + 1, g)
                  ELSE NoMatch
    ELSE IF pat[k].t = "spaces"
         THEN Repeat(pat, k, s, i, g, SpaceRun(s, i), 0)
    ELSE Repeat(pat, k, s, i, g, NonQuoteRun(s, i), 1)

\* re.search: the match at the leftmost position that has one
RECURSIVE SearchFrom(_, _, _)
SearchFrom(pat, s, i) ==
    IF i > Len(s) + 1 THEN NoMatch
    ELSE LET r == MatchFrom(pat, 1, s, i, <<>>)
         IN  IF r.ok THEN r ELSE SearchFrom(pat, s, i + 1)

re_search(pat, s) == SearchFrom(pat, s, 1)

Quoted(s) == <<Q>> \o s \o <<Q>>

string == <<"s", "t", "r", "i", "n", "g">>

\* rf'"{field_name}"\s*:\s*{{\s*"string"\s*:\s*"([^"]+)"\s*}}'
pattern1(field_name) ==
    << Lit(Quoted(field_name)), Spaces, Lit(<<":">>), Spaces, Lit(<<"{">>), Spaces,
       Lit(Quoted(string)), Spaces, Lit(<<":">>), Spaces,
       Lit(<<Q>>), Group, Lit(<<Q>>), Spaces, Lit(<<"}">>) >>

\* rf'"{field_name}"\s*:\s*"([^"]+)"'
pattern2(field_name) ==
    << Lit(Quoted(field_name)), Spaces, Lit(<<":">>), Spaces,
       Lit(<<Q>>), Group, Lit(<<Q>>) >>

UNKNOWN == <<"U", "N", "K", "N", "O", "W", "N">>

PARSE_ERROR == <<"P", "A", "R", "S", "E", "_", "E", "R", "R", "O", "R">>

ERROR_PREFIX == <<"E", "R", "R", "O", "R", ":", " ">>

ELLIPSIS == <<".", ".", ".">>

\* the five field names, in the order parse_avro_string extracts them
authorizer_usrnbr == <<"a", "u", "t", "h", "o", "r", "i", "z", "e", "r", "_", "u", "s", "r", "n", "b", "r">>
creat_usrnbr == <<"c", "r", "e", "a", "t", "_", "u", "s", "r", "n", "b", "r">>
creat_time == <<"c", "r", "e", "a", "t", "_", "t", "i", "m", "e">>
data == <<"d", "a", "t", "a">>
usrname == <<"u", "s", "r", "n", "a", "m", "e">>

FieldNames == {authorizer_usrnbr, creat_usrnbr, creat_time, data, usrname}

-----------------------------------------------------------------------------
(* AvroStringParser *)

\* outcome of a Python call: a returned value or a raised exception
Return(v) == [kind |-> "return", value |-> v]
Raise(e)  == [kind |-> "raise", exc |-> e]

\* the Field(default=...) declarations of class TransactionData
TransactionDefaults ==
    [authorizer_usrnbr |-> UNKNOWN, creat_usrnbr |-> UNKNOWN, creat_time |-> <<>>,
     data |-> <<>>, usrname |-> UNKNOWN]

\* TransactionData(...) with the five fields given as keywords; received_at
\* comes from default_factory=datetime.now
TransactionData(a, c, ct, d, u, t) ==
    [authorizer_usrnbr |-> a, creat_usrnbr |-> c, creat_time |-> ct,
     data |-> d, usrname |-> u, received_at |-> t]

\* faulty variant: the direct-string pattern is tried before the union-type pattern
_extract_string_value_BareFirst(avro_string, field_name) ==
    LET m2 == re_search(pattern2(field_name), avro_string)
        m1 == re_search(pattern1(field_name), avro_string)
    IN  IF m2.ok THEN m2.group
        ELSE IF m1.ok THEN m1.group
        ELSE UNKNOWN

_extract_string_value(avro_string, field_name) ==
    LET match1 == re_search(pattern1(field_name), avro_string)
        match2 == re_search(pattern2(field_name), avro_string)
    IN  IF match1.ok THEN match1.group
        ELSE IF match2.ok THEN match2.group
        ELSE UNKNOWN

\* faulty variant: the mark is appended to inputs of 200 characters too
_create_fallback_transaction_OffByOne(raw_text, error_msg, t_creat, t_recv) ==
    TransactionData(
        PARSE_ERROR,
        PARSE_ERROR,
        IsoFormat(t_creat),
        Prefix(raw_text, 200) \o (IF Len(raw_text) >= 200 THEN ELLIPSIS ELSE <<>>),
        ERROR_PREFIX \o Prefix(error_msg, 50),
        t_recv)

\* t_creat is the clock read by datetime.now().isoformat(), t_recv the one read
\* by the default factory of received_at
_create_fallback_transaction(raw_text, error_msg, t_creat, t_recv) ==
    TransactionData(
        PARSE_ERROR,
        PARSE_ERROR,
        IsoFormat(t_creat),
        Prefix(raw_text, 200) \o (IF Len(raw_text) > 200 THEN ELLIPSIS ELSE <<>>),
        ERROR_PREFIX \o Prefix(error_msg, 50),
        t_recv)

\* the body of the try block of parse_avro_string
parse_try(raw_text, t) ==
    LET a  == _extract_string_value(raw_text, authorizer_usrnbr)
        c  == _extract_string_value(raw_text, creat_usrnbr)
        ct == _extract_string_value(raw_text, creat_time)
        d  == _extract_string_value(raw_text, data)
        u  == _extract_string_value(raw_text, usrname)
    IN  Return(TransactionData(a, c, ct, d, u, t))

\* faulty variant: an empty input is rejected with an exception before the try block
parse_avro_string_RejectEmpty(raw_text, t) ==
    IF raw_text = <<>> THEN Raise(<<"e", "m", "p", "t", "y">>) ELSE parse_try(raw_text, t)

parse_avro_string(raw_text, t) ==
    LET r == parse_try(raw_text, t)
    IN  IF r.kind = "raise"
        THEN Return(_create_fallback_transaction(raw_text, r.exc, t, t))
        ELSE r

-----------------------------------------------------------------------------
(* bytes.decode('utf-8') *)

\* bytes that are not ASCII: lead bytes of a two-byte sequence, continuation
\* bytes, and 0xFF, which no UTF-8 text contains
LeadBytes == {"xC2", "xC3"}
ContinuationBytes == {"x80", "xA0", "xA9"}
IsAscii(b) == b \notin LeadBytes \cup ContinuationBytes \cup {"xFF"}

\* the code point of a two-byte sequence: ((lead & 0x1F) << 6) | (cont & 0x3F)
CodePoint(lead, cont) ==
    IF lead = "xC2"
    THEN (IF cont = "x80" THEN "U+0080" ELSE IF cont = "xA0" THEN "U+00A0" ELSE "U+00A9")
    ELSE (IF cont = "x80" THEN "U+00C0" ELSE IF cont = "xA0" THEN "U+00E0" ELSE "U+00E9")

UnicodeDecodeError == <<"i", "n", "v", "a", "l", "i", "d", " ", "b", "y", "t", "e">>

RECURSIVE DecodeFrom(_, _, _)
DecodeFrom(b, i, text) ==
    IF i > Len(b) THEN Return(text)
    ELSE IF IsAscii(b[i]) THEN DecodeFrom(b, i + 1, Append(text, b[i]))
    ELSE IF b[i] \in LeadBytes /\ i < Len(b) /\ b[i + 1] \in ContinuationBytes
         THEN DecodeFrom(b, i + 2, Append(text, CodePoint(b[i], b[i + 1])))
    ELSE Raise(UnicodeDecodeError)

\* faulty variant: decode(errors='replace'), an undecodable byte becomes U+FFFD
RECURSIVE DecodeReplaceFrom(_, _, _)
DecodeReplaceFrom(b, i, text) ==
    IF i > Len(b) THEN Return(text)
    ELSE IF IsAscii(b[i]) THEN DecodeReplaceFrom(b, i + 1, Append(text, b[i]))
    ELSE IF b[i] \in LeadBytes /\ i < Len(b) /\ b[i + 1] \in ContinuationBytes
         THEN DecodeReplaceFrom(b, i + 2, Append(text, CodePoint(b[i], b[i + 1])))
    ELSE DecodeReplaceFrom(b, i + 1, Append(text, "U+FFFD"))

decode_Replace(b) == DecodeReplaceFrom(b, 1, <<>>)

decode(b) == DecodeFrom(b, 1, <<>>)

-----------------------------------------------------------------------------
(* The webhook handlers *)

Tasks == 1..NTasks

None == <<>>

NoResponse == [kind |-> "none"]

\* request bodies sent to POST /webhook/user-transactions
ValidBody ==
    Quoted(usrname) \o <<":", "{">> \o Quoted(string) \o <<":">>
        \o Quoted(<<"r", "xC3", "xA9">>) \o <<"}">>
InvalidBody == Quoted(usrname) \o <<":">> \o Quoted(<<"b">>) \o <<"xC3">>
Bodies == {ValidBody, InvalidBody}

\* faulty variant: the handler also awaits between the append and the increment
Yields_AfterAppend(p) == p \in {"post_await", "post_incr"}

\* faulty variant: the reset handler also awaits between its two assignments
Yields_InReset(p) == p \in {"post_await", "reset_storage"}

\* the positions at which a coroutine is suspended at an await: the only await
\* of the three handlers is `await request.body()`
Yields(p) == p = "post_await"

\* the coroutine that holds the event loop once task t has moved to position p
Holder(t, p) == IF p = "idle" \/ Yields(p) THEN 0 ELSE t

\* task t can take a step: it holds the loop, or nobody does
CanRun(t) == running = t \/ running = 0

Goto(t, p) == /\ pc' = [pc EXCEPT ![t] = p]
              /\ running' = Holder(t, p)

\* POST arrives; the handler runs up to `raw_body = await request.body()`
PostArrive(t, b) ==
    /\ running = 0 /\ pc[t] = "idle"
    /\ transaction_counter + Cardinality({u \in Tasks : pc[u] = "post_await"}) < MaxPosts
    /\ raw_body' = [raw_body EXCEPT ![t] = b]
    /\ Goto(t, "post_await")
    /\ response' = NoResponse
    /\ UNCHANGED <<transaction_counter, transaction_storage, raw_data, transaction,
                   last_transactions, accepted, parserVars, now>>

\* raw_data = raw_body.decode('utf-8'); an exception goes to the except block
PostDecode(t) ==
    /\ CanRun(t) /\ pc[t] = "post_await"
    /\ LET r == decode(raw_body[t])
       IN  IF r.kind = "raise"
           THEN /\ Goto(t, "post_raise")
                /\ UNCHANGED raw_data
           ELSE /\ Goto(t, "post_parse")
                /\ raw_data' = [raw_data EXCEPT ![t] = r.value]
    /\ response' = NoResponse
    /\ UNCHANGED <<transaction_counter, transaction_storage, raw_body, transaction,
                   last_transactions, accepted, parserVars, now>>

\* transaction = AvroStringParser.parse_avro_string(raw_data)
PostParse(t) ==
    /\ CanRun(t) /\ pc[t] = "post_parse"
    /\ LET r == parse_avro_string(raw_data[t], now)
       IN  IF r.kind = "raise"
           THEN /\ Goto(t, "post_raise")
                /\ UNCHANGED transaction
           ELSE /\ Goto(t, "post_append")
                /\ transaction' = [transaction EXCEPT ![t] = r.value]
    /\ response' = NoResponse
    /\ UNCHANGED <<transaction_counter, transaction_storage, raw_body, raw_data,
                   last_transactions, accepted, parserVars, now>>

\* transaction_storage.append(transaction)
PostAppend(t) ==
    /\ CanRun(t) /\ pc[t] = "post_append"
    /\ transaction_storage' = Append(transaction_storage, transaction[t])
    /\ accepted' = Append(accepted, transaction[t])
    /\ Goto(t, "post_incr")
    /\ response' = NoResponse
    /\ UNCHANGED <<transaction_counter, raw_body, raw_data, transaction,
                   last_transactions, parserVars, now>>

\* faulty variant: the counter is set to the length of the storage
Increment_Len(n) == Len(transaction_storage)

\* transaction_counter += 1
Increment(n) == n + 1

PostIncr(t) ==
    /\ CanRun(t) /\ pc[t] = "post_incr"
    /\ transaction_counter' = Increment(transaction_counter)
    /\ Goto(t, "post_trim")
    /\ response' = NoResponse
    /\ UNCHANGED <<transaction_storage, raw_body, raw_data, transaction,
                   last_transactions, accepted, parserVars, now>>

\* faulty variant: keeps the first 10 instead of the last 10
Trim_First(storage) == IF Len(storage) > 10 THEN Prefix(storage, 10) ELSE storage

\* if len(transaction_storage) > 10: transaction_storage = transaction_storage[-10:]
Trim(storage) == IF Len(storage) > 10 THEN Suffix(storage, 10) ELSE storage

PostTrim(t) ==
    /\ CanRun(t) /\ pc[t] = "post_trim"
    /\ transaction_storage' = Trim(transaction_storage)
    /\ Goto(t, "post_return")
    /\ response' = NoResponse
    /\ UNCHANGED <<transaction_counter, raw_body, raw_data, transaction,
                   last_transactions, accepted, parserVars, now>>

\* return {"status": "success", ...}
PostReturn(t) ==
    /\ CanRun(t) /\ pc[t] = "post_return"
    /\ response' = [kind |-> "post", status |-> 200,
                    count |-> transaction_counter, poc_id |-> transaction_counter,
                    user |-> transaction[t].usrname,
                    received_at |-> IsoFormat(transaction[t].received_at)]
    /\ Goto(t, "idle")
    /\ raw_body' = [raw_body EXCEPT ![t] = None]
    /\ raw_data' = [raw_data EXCEPT ![t] = None]
    /\ transaction' = [transaction EXCEPT ![t] = None]
    /\ UNCHANGED <<transaction_counter, transaction_storage, last_transactions,
                   accepted, parserVars, now>>

\* except Exception as e: raise HTTPException(status_code=400, ...)
PostRaise(t) ==
    /\ CanRun(t) /\ pc[t] = "post_raise"
    /\ response' = [kind |-> "post", status |-> 400]
    /\ Goto(t, "idle")
    /\ raw_body' = [raw_body EXCEPT ![t] = None]
    /\ raw_data' = [raw_data EXCEPT ![t] = None]
    /\ transaction' = [transaction EXCEPT ![t] = None]
    /\ UNCHANGED <<transaction_counter, transaction_storage, last_transactions,
                   accepted, parserVars, now>>

\* faulty variant: the list is returned in insertion order
get_order_Forward(storage) == storage

\* last_transactions = list(reversed(transaction_storage))
get_order(storage) == Reversed(storage)

\* GET arrives; the handler runs its first statement
GetReverse(t) ==
    /\ running = 0 /\ pc[t] = "idle"
    /\ last_transactions' = [last_transactions EXCEPT ![t] = get_order(transaction_storage)]
    /\ Goto(t, "get_return")
    /\ response' = NoResponse
    /\ UNCHANGED <<transaction_counter, transaction_storage, raw_body, raw_data,
                   transaction, accepted, parserVars, now>>

\* response = TransactionResponse(...); return response
GetReturn(t) ==
    /\ CanRun(t) /\ pc[t] = "get_return"
    /\ response' = [kind |-> "get", status |-> 200,
                    total_count |-> transaction_counter,
                    last_10_transactions |-> last_transactions[t],
                    last_updated |-> now,
                    poc_status |-> "active", processing_mode |-> "python_avro"]
    /\ Goto(t, "idle")
    /\ last_transactions' = [last_transactions EXCEPT ![t] = None]
    /\ UNCHANGED <<transaction_counter, transaction_storage, raw_body, raw_data,
                   transaction, accepted, parserVars, now>>

\* POST /webhook/reset arrives: transaction_counter = 0
ResetCounter(t) ==
    /\ running = 0 /\ pc[t] = "idle"
    /\ transaction_counter' = 0
    /\ Goto(t, "reset_storage")
    /\ response' = NoResponse
    /\ UNCHANGED <<transaction_storage, raw_body, raw_data, transaction,
                   last_transactions, accepted, parserVars, now>>

\* transaction_storage = []
reset_storage(storage) == <<>>

ResetStorage(t) ==
    /\ CanRun(t) /\ pc[t] = "reset_storage"
    /\ transaction_storage' = reset_storage(transaction_storage)
    /\ accepted' = <<>>
    /\ Goto(t, "reset_return")
    /\ response' = NoResponse
    /\ UNCHANGED <<transaction_counter, raw_body, raw_data, transaction,
                   last_transactions, parserVars, now>>

\* return {"status": "success", ...}
ResetReturn(t) ==
    /\ CanRun(t) /\ pc[t] = "reset_return"
    /\ response' = [kind |-> "reset", status |-> 200, timestamp |-> IsoFormat(now)]
    /\ Goto(t, "idle")
    /\ UNCHANGED <<transaction_counter, transaction_storage, raw_body, raw_data,
                   transaction, last_transactions, accepted, parserVars, now>>

\* the wall clock advances
Tick ==
    /\ now < MaxNow
    /\ now' = now + 1
    /\ UNCHANGED <<httpVars, parserVars>>

HttpInit ==
    /\ transaction_counter = 0
    /\ transaction_storage = <<>>
    /\ pc = [t \in Tasks |-> "idle"]
    /\ raw_body = [t \in Tasks |-> None]
    /\ raw_data = [t \in Tasks |-> None]
    /\ transaction = [t \in Tasks |-> None]
    /\ last_transactions = [t \in Tasks |-> None]
    /\ running = 0
    /\ response = NoResponse
    /\ accepted = <<>>

ParserIdle ==
    /\ arg_raw = <<>>
    /\ arg_name = <<>>
    /\ called = "none"
    /\ ret = None

Init == HttpInit /\ ParserIdle /\ now = 0

Next ==
    \/ \E t \in Tasks, b \in Bodies : PostArrive(t, b)
    \/ \E t \in Tasks : PostDecode(t)
    \/ \E t \in Tasks : PostParse(t)
    \/ \E t \in Tasks : PostAppend(t)
    \/ \E t \in Tasks : PostIncr(t)
    \/ \E t \in Tasks : PostTrim(t)
    \/ \E t \in Tasks : PostReturn(t)
    \/ \E t \in Tasks : PostRaise(t)
    \/ \E t \in Tasks : GetReverse(t)
    \/ \E t \in Tasks : GetReturn(t)
    \/ \E t \in Tasks : ResetCounter(t)
    \/ \E t \in Tasks : ResetStorage(t)
    \/ \E t \in Tasks : ResetReturn(t)
    \/ Tick

Spec == Init /\ [][Next]_vars

-----------------------------------------------------------------------------
(* Calls of the parser's functions on raw texts *)

\* "<field>": {"string": "<value>"} and "<field>": "<value>", without spaces
Wrapped(f, v) == Quoted(f) \o <<":", "{">> \o Quoted(string) \o <<":">> \o Quoted(v) \o <<"}">>
Bare(f, v) == Quoted(f) \o <<":">> \o Quoted(v)

\* the union-type form with white space at every place the pattern allows it
WrappedSpaced(f, v) ==
    Quoted(f) \o <<" ", ":", "\n", "{", " ">> \o Quoted(string) \o <<"\t", ":", " ", " ">>
        \o Quoted(v) \o <<" ", "}">>

\* pieces of raw text; a raw text is the concatenation of at most MaxFrags
Fragments ==
    << Wrapped(usrname, <<"w">>),
       Bare(usrname, <<"b">>),
       WrappedSpaced(usrname, <<"x", " ", "y">>),
       Quoted(usrname) \o <<":">>,
       Bare(string, <<"s">>),
       <<"{">>,
       <<"}">>,
       <<Q>>,
       Bare(data, <<"d">>),
       Wrapped(creat_time, <<"t">>) >>

RECURSIVE Concat(_)
Concat(fs) == IF fs = <<>> THEN <<>> ELSE Fragments[Head(fs)] \o Concat(Tail(fs))

FragmentTexts ==
    { Concat(fs) : fs \in UNION { [1..n -> 1..Len(Fragments)] : n \in 0..MaxFrags } }

\* filler texts, no two positions in a row alike, of the lengths around the
\* cut of the fallback and of the greatest length
FillChars == <<"a", "b", "{">>
Fill(n, k) == [i \in 1..n |-> FillChars[((i + k) % 3) + 1]]
FillLens == (195..205) \cup {MaxRawLen}
FillTexts == { Fill(n, k) : n \in FillLens, k \in {0, 1} }

RawTexts == FragmentTexts \cup FillTexts

\* failure descriptions: str(e) of lengths around the cut
ErrorMsg(m) == [i \in 1..m |-> Digit(i % 10)]
ErrorLens == {0, 49, 50, 51, MaxErrLen}

CallParse ==
    /\ called = "none"
    /\ called' = "parse_avro_string"
    /\ ret' = parse_avro_string(arg_raw, now)
    /\ UNCHANGED <<arg_raw, arg_name, httpVars, now>>

CallExtract(f) ==
    /\ called = "none"
    /\ called' = "_extract_string_value"
    /\ arg_name' = f
    /\ ret' = Return(_extract_string_value(arg_raw, f))
    /\ UNCHANGED <<arg_raw, httpVars, now>>

CallFallback(m) ==
    /\ called = "none"
    /\ called' = "_create_fallback_transaction"
    /\ arg_name' = ErrorMsg(m)
    /\ ret' = Return(_create_fallback_transaction(arg_raw, ErrorMsg(m), now, now))
    /\ UNCHANGED <<arg_raw, httpVars, now>>

ParserInit ==
    /\ HttpInit
    /\ now = 0
    /\ arg_raw \in RawTexts
    /\ arg_name = <<>>
    /\ called = "none"
    /\ ret = None

ParserNext ==
    \/ CallParse
    \/ \E f \in FieldNames : CallExtract(f)
    \/ \E m \in ErrorLens : CallFallback(m)

SpecParser == ParserInit /\ [][ParserNext]_vars

-----------------------------------------------------------------------------
(* Properties of the parser's functions, checked under SpecParser *)

RecordFields == {"authorizer_usrnbr", "creat_usrnbr", "creat_time", "data", "usrname"}

\* a fully populated Record: five texts and a timestamp
IsRecord(r) ==
    /\ DOMAIN r = RecordFields \cup {"received_at"}
    /\ \A f \in RecordFields : r[f] \in Seq(STRING)
    /\ r.received_at \in Nat

\* C1: parsing is total: whatever the raw text, parse_avro_string returns a
\* Record and raises nothing.
C1_ParseTotal ==
    called = "parse_avro_string" => (ret.kind = "return" /\ IsRecord(ret.value))

\* parse_avro_string was applied to the empty text and to a text of one
\* unbalanced quote, and returned
C1_Witness ==
    /\ called = "parse_avro_string"
    /\ arg_raw \in {<<>>, <<Q>>}
    /\ ret.kind = "return"

\* sub occurs in s
Occurs(sub, s) ==
    \E i \in 1..(Len(s) - Len(sub) + 1) : SubSeq(s, i, i + Len(sub) - 1) = sub

\* C7: when none of the five field names occurs in the raw text, the Record has
\* authorizer_usrnbr, creat_usrnbr and usrname "UNKNOWN" and creat_time and
\* data empty (the defaults class TransactionData declares).
C7_MissingFieldDefaults ==
    (called = "parse_avro_string" /\ \A f \in FieldNames : ~Occurs(f, arg_raw))
        => /\ ret.kind = "return"
           /\ \A f \in RecordFields : ret.value[f] = TransactionDefaults[f]

\* The occurrences of the two forms, stated position by position.
AllSpace(s, a, b) == \A k \in a..b : IsSpace(s[k])

LitAt(s, i, lit) == i + Len(lit) - 1 <= Len(s) /\ SubSeq(s, i, i + Len(lit) - 1) = lit

\* the positions from n on that hold ch (or the literal lit) with only white
\* space between n and them
After(s, n, ch) == {c \in n..Len(s) : s[c] = ch /\ AllSpace(s, n, c - 1)}
LitAfter(s, n, lit) == {c \in n..Len(s) : LitAt(s, c, lit) /\ AllSpace(s, n, c - 1)}

\* the closing quotes of a non-empty value that opens at quote q
Closing(s, q) == {e \in (q + 2)..Len(s) : s[e] = Q /\ \A k \in (q + 1)..(e - 1) : s[k] # Q}

\* the values of the bare form "<f>" : "<value>" that starts at position i
BareValuesAt(s, f, i) ==
    IF ~LitAt(s, i, Quoted(f)) THEN {}
    ELSE UNION { UNION { { SubSeq(s, q + 1, e - 1) : e \in Closing(s, q) }
                         : q \in After(s, c + 1, Q) }
                 : c \in After(s, i + Len(f) + 2, ":") }

\* the values of the wrapped form "<f>" : { "string" : "<value>" } at position i
WrappedValuesAt(s, f, i) ==
    IF ~LitAt(s, i, Quoted(f)) THEN {}
    ELSE UNION { UNION { UNION { UNION { UNION {
            { SubSeq(s, q + 1, e - 1) : e \in {e \in Closing(s, q) : After(s, e + 1, "}") # {}} }
              : q \in After(s, c2 + 1, Q) }
              : c2 \in After(s, p + Len(string) + 2, ":") }
              : p \in LitAfter(s, b + 1, Quoted(string)) }
              : b \in After(s, c + 1, "{") }
              : c \in After(s, i + Len(f) + 2, ":") }

Least(S) == CHOOSE i \in S : \A j \in S : i <= j

\* C9: the extractor returns the value of the first wrapped-form occurrence if
\* the text has one, wherever the bare-form occurrences are; otherwise the value
\* of the first bare-form occurrence; otherwise "UNKNOWN".
C9_Precedence ==
    called = "_extract_string_value" =>
        LET s == arg_raw
            W == {i \in 1..Len(s) : WrappedValuesAt(s, arg_name, i) # {}}
            B == {i \in 1..Len(s) : BareValuesAt(s, arg_name, i) # {}}
        IN  /\ ret.kind = "return"
            /\ IF W # {} THEN WrappedValuesAt(s, arg_name, Least(W)) = {ret.value}
               ELSE IF B # {} THEN BareValuesAt(s, arg_name, Least(B)) = {ret.value}
               ELSE ret.value = UNKNOWN

\* a text whose bare form comes before its wrapped form: the wrapped value won
C9_Witness ==
    /\ called = "_extract_string_value"
    /\ arg_name = usrname
    /\ arg_raw = Bare(usrname, <<"b">>) \o Wrapped(usrname, <<"w">>)
    /\ ret.value = <<"w">>

\* C10: the fallback Record's data is the first 200 characters of the raw text,
\* followed by "..." exactly when the text is longer than 200, so its length is
\* n for n <= 200 and 203 beyond; its usrname is "ERROR: " and the first 50
\* characters of the failure description.
C10_FallbackTruncation ==
    called = "_create_fallback_transaction" =>
        LET n == Len(arg_raw)
            d == ret.value.data
            u == ret.value.usrname
            m == Min(Len(arg_name), 50)
        IN  /\ Len(d) = IF n <= 200 THEN n ELSE 203
            /\ \A i \in 1..Min(n, 200) : d[i] = arg_raw[i]
            /\ n > 200 => \A i \in 201..203 : d[i] = "."
            /\ Len(u) = 7 + m
            /\ SubSeq(u, 1, 7) = ERROR_PREFIX
            /\ \A i \in 1..m : u[7 + i] = arg_name[i]

\* a 300-character text and a description longer than 50 went through it
C10_Witness ==
    /\ called = "_create_fallback_transaction"
    /\ Len(arg_raw) = 300
    /\ Len(ret.value.data) = 203
    /\ Len(arg_name) > 50
    /\ Len(ret.value.usrname) = 57

-----------------------------------------------------------------------------
(* Properties of the handlers, checked under Spec *)

PostPositions == {"post_await", "post_parse", "post_append", "post_incr",
                  "post_trim", "post_return", "post_raise"}
ResetPositions == {"reset_storage", "reset_return"}

\* task t takes a step from position p to position q
Moves(t, p, q) == pc[t] = p /\ pc'[t] = q

\* a step of a POST handler after its body arrived, of a reset handler
PostStep == \E t \in Tasks : pc[t] \in PostPositions /\ pc'[t] # pc[t]
ResetStep == \E t \in Tasks : Moves(t, "idle", "reset_storage")
                                \/ (pc[t] \in ResetPositions /\ pc'[t] # pc[t])

\* C2: whenever no handler is in the middle of its statements, the buffer holds
\* exactly the last min(k, 10) Records appended since the last reset, oldest
\* first, and the counter reads k, k being the number of those appends.
C2_BufferIsLastTen ==
    running = 0 =>
        LET k == Len(accepted)
            n == Len(transaction_storage)
        IN  /\ transaction_counter = k
            /\ n = Min(k, 10)
            /\ \A i \in 1..n : transaction_storage[i] = accepted[k - n + i]

\* 15 appends: the buffer holds 10 Records, not all alike, the counter reads 15
C2_Witness ==
    /\ running = 0
    /\ transaction_counter = 15
    /\ Len(transaction_storage) = 10
    /\ transaction_storage[1] # transaction_storage[10]

\* C3: every state a handler can be scheduled in, and every GET response, has
\* len(buffer) = min(counter, 10): the counter is never seen ahead of or
\* behind the buffer, nor the buffer longer than 10.
C3_AppendObservedAtomically ==
    /\ running = 0 => Len(transaction_storage) = Min(transaction_counter, 10)
    /\ response.kind = "get" =>
           Len(response.last_10_transactions) = Min(response.total_count, 10)

\* a GET answered, past the capacity, while a POST is suspended at its await
C3_Witness ==
    /\ response.kind = "get"
    /\ response.total_count = 11
    /\ \E t \in Tasks : pc[t] = "post_await"

\* C4: a handler is never scheduled in, and a reset never answers from, a state
\* with the counter zeroed and the buffer not empty or the buffer emptied and
\* the counter not zero; when reset answers, both are cleared.
C4_ResetAtomic ==
    /\ running = 0 => (transaction_counter = 0 <=> transaction_storage = <<>>)
    /\ response.kind = "reset" => (transaction_counter = 0 /\ transaction_storage = <<>>)

\* a reset between its two assignments, counter zeroed and buffer still full,
\* while a POST is suspended at its await
C4_Witness ==
    \E t, u \in Tasks :
        /\ pc[t] = "reset_storage" /\ running = t
        /\ transaction_counter = 0 /\ Len(transaction_storage) = 10
        /\ pc[u] = "post_await"

\* C5: the counter never decreases except in a reset, which sets it to 0; the
\* increment of an accepted POST adds exactly 1 and nothing else raises it;
\* the eviction, the reads and the clock leave it unchanged.
C5_CounterMonotone ==
    [][ /\ transaction_counter' < transaction_counter
            => (transaction_counter' = 0 /\ \E t \in Tasks : Moves(t, "idle", "reset_storage"))
        /\ (\E t \in Tasks : Moves(t, "post_incr", "post_trim"))
            <=> transaction_counter' = transaction_counter + 1
        /\ transaction_counter' > transaction_counter
            => transaction_counter' = transaction_counter + 1
        /\ (\E t \in Tasks : \/ Moves(t, "post_trim", "post_return")
                             \/ Moves(t, "idle", "get_return")
                             \/ Moves(t, "get_return", "idle"))
            => transaction_counter' = transaction_counter
      ]_vars

\* the counter is past the capacity and two ahead of the length of the buffer
C5_Witness ==
    /\ running = 0
    /\ transaction_counter = 12
    /\ Len(transaction_storage) = 10

\* what a read returns, the freshness timestamp aside
ReadView == <<transaction_counter, Reversed(transaction_storage)>>

\* the steps of a GET change neither buffer nor counter, and its response has
\* total_count = counter and the buffered Records, at most 10, newest first
GetContract ==
    /\ (\E t \in Tasks : Moves(t, "idle", "get_return") \/ Moves(t, "get_return", "idle"))
           => UNCHANGED <<transaction_counter, transaction_storage>>
    /\ (\E t \in Tasks : Moves(t, "get_return", "idle"))
           => LET l == response'.last_10_transactions
                  n == Len(transaction_storage)
              IN  /\ response'.kind = "get"
                  /\ response'.total_count = transaction_counter
                  /\ Len(l) = n /\ n <= 10
                  /\ \A i \in 1..n : l[i] = transaction_storage[n - i + 1]

\* C6 as stated: the GET contract, and two reads with no append between them
\* return the same count and Records: no step other than those of a POST
\* changes what a read returns.
C6_Original ==
    [][ GetContract /\ (~PostStep => ReadView' = ReadView) ]_vars

\* C6, amended: the GET contract, and two reads with neither an append nor a
\* reset between them return the same count and Records.
C6_ReadIdempotent ==
    [][ GetContract /\ (~(PostStep \/ ResetStep) => ReadView' = ReadView) ]_vars

\* a GET answered with at least two Records, the newer one first
C6_Witness ==
    /\ response.kind = "get"
    /\ Len(response.last_10_transactions) = 10
    /\ response.last_10_transactions[1].received_at
           > response.last_10_transactions[10].received_at
    /\ response.last_10_transactions[1] = transaction_storage[10]

\* a body that is UTF-8: no 0xFF, every lead byte before a continuation byte,
\* every continuation byte after a lead byte
WellFormedUtf8(b) ==
    \A i \in 1..Len(b) :
        /\ b[i] # "xFF"
        /\ b[i] \in LeadBytes => (i < Len(b) /\ b[i + 1] \in ContinuationBytes)
        /\ b[i] \in ContinuationBytes => (i > 1 /\ b[i - 1] \in LeadBytes)

Undecodable(t) == pc[t] \in PostPositions /\ ~WellFormedUtf8(raw_body[t])

\* C8 as stated: a POST whose body is not valid text is not aborted: it answers
\* success, having appended a fallback Record and incremented the counter.
C8_Original ==
    [][ \A t \in Tasks :
          (Undecodable(t) /\ pc'[t] = "idle")
              => /\ response'.kind = "post" /\ response'.status = 200
                 /\ transaction_storage # <<>>
                 /\ transaction_storage[Len(transaction_storage)].authorizer_usrnbr = PARSE_ERROR
                 /\ transaction_storage[Len(transaction_storage)].creat_usrnbr = PARSE_ERROR
                 /\ response'.count = transaction_counter
      ]_vars

\* C8, amended: a POST whose body is not valid UTF-8 is aborted at the decode:
\* the parser is not called, the handler answers 400, no Record is appended and
\* the counter is unchanged.
C8_UndecodableRejected ==
    [][ \A t \in Tasks :
          (Undecodable(t) /\ pc'[t] # pc[t])
              => /\ UNCHANGED <<transaction_counter, transaction_storage>>
                 /\ \/ Moves(t, "post_await", "post_raise")
                    \/ /\ Moves(t, "post_raise", "idle")
                       /\ response'.kind = "post" /\ response'.status = 400
      ]_vars

\* a POST answered 400 after an earlier POST was accepted, the counter still 1
C8_Witness ==
    /\ response.kind = "post" /\ response.status = 400
    /\ transaction_counter = 1
    /\ Len(transaction_storage) = 1

====
